---- MODULE Spec2Model ----
(***************************************************************************)
(* Model of internal/sops/azkv/keysource.go: the Azure Key Vault master    *)
(* key of SOPS, its credential resolution (AADConfig.SetToken), its        *)
(* encrypt/decrypt operations and the decoding of the authentication file. *)
(*                                                                         *)
(* A Go string and a Go []byte are both modelled as a sequence of bytes    *)
(* (numbers 0..255); configuration strings, which the code only compares   *)
(* with "" and passes on, are modelled as TLA+ strings.                    *)
(***************************************************************************)
EXTENDS Integers, Sequences, FiniteSets

VARIABLES
    VaultURL,       \* MasterKey.VaultURL
    Name,           \* MasterKey.Name
    Version,        \* MasterKey.Version
    EncryptedKey,   \* MasterKey.EncryptedKey (a Go string: a byte sequence)
    CreationDate,   \* MasterKey.CreationDate, in days
    token,          \* MasterKey.token (an interface value)
    b,              \* the bytes of the authentication file handed to LoadAADConfigFromBytes
    lastEncrypt,    \* history: the last successful Encrypt whose result the payload still holds
    last            \* the last call: its operation, its inputs and what it returned

vars == <<VaultURL, Name, Version, EncryptedKey, CreationDate, token, b, lastEncrypt, last>>

keyFields == <<VaultURL, Name, Version, CreationDate>>

-----------------------------------------------------------------------------
(* Bounds *)

\* longest data key (and longest payload handed to SetEncryptedDataKey)
MaxKeyLen == 1

\* longest authentication file, in bytes
MaxBytes == 5

-----------------------------------------------------------------------------
(* Bytes and byte strings *)

RECURSIVE SeqsUpTo(_, _)
SeqsUpTo(S, n) ==
    IF n = 0 THEN {<<>>}
    ELSE LET shorter == SeqsUpTo(S, n - 1)
         IN  shorter \cup {Append(s, x) : s \in {t \in shorter : Len(t) = n - 1}, x \in S}

\* data key bytes: an ASCII byte and a byte that is not valid UTF-8
KeyBytes == {65, 255}

DataKeys == SeqsUpTo(KeyBytes, MaxKeyLen)

\* string(bs) with every byte that is not ASCII replaced by '?'
StringOfBytesMutLossy(bs) == [i \in 1..Len(bs) |-> IF bs[i] < 128 THEN bs[i] ELSE 63]

\* string(bs): Go copies the bytes, whatever they are
StringOfBytes(bs) == [i \in 1..Len(bs) |-> bs[i]]

\* []byte(s): Go copies the bytes of the string
BytesOfString(s) == [i \in 1..Len(s) |-> s[i]]

-----------------------------------------------------------------------------
(* AADConfig and the credentials of azidentity *)

\* the nil *AADConfig
NilConfig == [nil |-> TRUE]

AADConfig(tenantId, clientId, clientSecret, clientCertificate, authorityHost, appId, tenant, password) ==
    [ nil |-> FALSE,
      TenantID |-> tenantId, ClientID |-> clientId, ClientSecret |-> clientSecret,
      ClientCertificate |-> clientCertificate, ClientCertificatePassword |-> "",
      ClientCertificateSendChain |-> FALSE, AuthorityHost |-> authorityHost,
      AppID |-> appId, Tenant |-> tenant, Password |-> password ]

\* every combination of present and absent fields; the certificate is well-formed
\* ("pem") or malformed ("bad")
Configs ==
    { AADConfig(t, c, s, cert, h, a, lt, p) :
        t \in {"", "tid"}, c \in {"", "cid"}, s \in {"", "sec"},
        cert \in {"", "pem", "bad"}, h \in {"", "host"},
        a \in {"", "app"}, lt \in {"", "ten"}, p \in {"", "pwd"} }
    \cup {NilConfig}

\* one configuration per branch of SetToken, used where the key's whole life is explored
LifecycleConfigs ==
    { NilConfig,
      AADConfig("", "", "", "", "", "", "", ""),
      AADConfig("", "cid", "", "", "", "", "", ""),
      AADConfig("tid", "cid", "", "", "", "", "", ""),
      AADConfig("tid", "cid", "sec", "", "", "app", "ten", "pwd"),
      AADConfig("tid", "cid", "", "pem", "host", "", "", ""),
      AADConfig("tid", "cid", "", "bad", "", "", "", ""),
      AADConfig("", "", "", "", "", "app", "ten", "pwd") }

AzurePublicCloud == "https://login.microsoftonline.com/"

GetAuthorityHost(s) ==
    IF s.AuthorityHost # "" THEN s.AuthorityHost ELSE AzurePublicCloud

\* the nil interface value: the token of a key on which SetToken never assigned
NoToken == [type |-> "nil", ptr |-> <<>>]

\* what a credential constructor returns: the credential, or a nil pointer and an
\* error. Assigned to key.token, the nil pointer is a typed nil.
Credential(type, args, ok) == [type |-> type, ptr |-> IF ok THEN <<args>> ELSE <<>>]

\* a token that can authenticate a call
Usable(tok) == tok.ptr # <<>>

\* azidentity.ParseCertificates: certificates and private key, or an error
ParseCertificates(certData, password) ==
    IF certData = "pem"
    THEN [certs |-> <<"certificate">>, pk |-> "privateKey", err |-> "nil"]
    ELSE [certs |-> <<>>, pk |-> "nil", err |-> "ParseCertificates"]

\* SetToken with the legacy fields tried first
SetTokenMutLegacyFirst(s, tok, buildOk) ==
    LET errOf(ctor) == IF buildOk THEN "nil" ELSE ctor
    IN
    IF s.Tenant # "" /\ s.AppID # "" /\ s.Password # ""
    THEN [ token |-> Credential("ClientSecretCredential",
                        <<s.Tenant, s.AppID, s.Password, GetAuthorityHost(s)>>, buildOk),
           err |-> errOf("NewClientSecretCredential"), chosen |-> "legacy-client-secret",
           parseErr |-> "nil" ]
    ELSE IF s.TenantID # "" /\ s.ClientID # "" /\ s.ClientSecret # ""
    THEN [ token |-> Credential("ClientSecretCredential",
                        <<s.TenantID, s.ClientID, s.ClientSecret, GetAuthorityHost(s)>>, buildOk),
           err |-> errOf("NewClientSecretCredential"), chosen |-> "client-secret",
           parseErr |-> "nil" ]
    ELSE IF s.TenantID # "" /\ s.ClientID # "" /\ s.ClientCertificate # ""
    THEN LET p == ParseCertificates(s.ClientCertificate, s.ClientCertificatePassword)
         IN [ token |-> Credential("ClientCertificateCredential",
                        <<s.TenantID, s.ClientID, p.certs, p.pk,
                          s.ClientCertificateSendChain, GetAuthorityHost(s)>>, buildOk),
              err |-> errOf("NewClientCertificateCredential"), chosen |-> "client-certificate",
              parseErr |-> p.err ]
    ELSE IF s.ClientID # ""
    THEN [ token |-> Credential("ManagedIdentityCredential", <<s.ClientID>>, buildOk),
           err |-> errOf("NewManagedIdentityCredential"), chosen |-> "managed-identity",
           parseErr |-> "nil" ]
    ELSE [ token |-> tok, err |-> "invalid data", chosen |-> "none", parseErr |-> "nil" ]

\* SetToken on a non-nil config and key: the token of the key after the call, the
\* error returned and the constructor that was called. tok is the token before
\* the call, buildOk whether the constructor called succeeds.
SetTokenResult(s, tok, buildOk) ==
    LET errOf(ctor) == IF buildOk THEN "nil" ELSE ctor
        legacy ==
            IF s.Tenant # "" /\ s.AppID # "" /\ s.Password # ""
            THEN [ token |-> Credential("ClientSecretCredential",
                                <<s.Tenant, s.AppID, s.Password, GetAuthorityHost(s)>>, buildOk),
                   err |-> errOf("NewClientSecretCredential"),
                   chosen |-> "legacy-client-secret", parseErr |-> "nil" ]
            ELSE IF s.ClientID # ""
            THEN [ token |-> Credential("ManagedIdentityCredential", <<s.ClientID>>, buildOk),
                   err |-> errOf("NewManagedIdentityCredential"),
                   chosen |-> "managed-identity", parseErr |-> "nil" ]
            ELSE [ token |-> tok, err |-> "invalid data", chosen |-> "none",
                   parseErr |-> "nil" ]
    IN
    IF s.TenantID # "" /\ s.ClientID # ""
    THEN IF s.ClientSecret # ""
         THEN [ token |-> Credential("ClientSecretCredential",
                             <<s.TenantID, s.ClientID, s.ClientSecret, GetAuthorityHost(s)>>,
                             buildOk),
                err |-> errOf("NewClientSecretCredential"), chosen |-> "client-secret",
                parseErr |-> "nil" ]
         ELSE IF s.ClientCertificate # ""
         THEN LET p == ParseCertificates(s.ClientCertificate, s.ClientCertificatePassword)
              IN  \* the error of ParseCertificates is overwritten by the constructor's
                  [ token |-> Credential("ClientCertificateCredential",
                                 <<s.TenantID, s.ClientID, p.certs, p.pk,
                                   s.ClientCertificateSendChain, GetAuthorityHost(s)>>,
                                 buildOk),
                    err |-> errOf("NewClientCertificateCredential"),
                    chosen |-> "client-certificate", parseErr |-> p.err ]
         ELSE legacy
    ELSE legacy

\* SetToken(key): with a nil config or a nil key nothing happens and nil is returned
SetToken(configs) ==
    \E s \in configs, keyNil \in BOOLEAN, buildOk \in BOOLEAN :
        LET r == IF s.nil \/ keyNil
                 THEN [token |-> token, err |-> "nil", chosen |-> "none", parseErr |-> "nil"]
                 ELSE SetTokenResult(s, token, buildOk)
        IN /\ (r.chosen = "none" => buildOk)
           /\ token' = r.token
           /\ last' = [ op |-> "SetToken", s |-> s, keyNil |-> keyNil, err |-> r.err,
                        chosen |-> r.chosen, parseErr |-> r.parseErr ]
           /\ UNCHANGED <<keyFields, EncryptedKey, b, lastEncrypt>>

-----------------------------------------------------------------------------
(* The Key Vault client and service *)

\* the randomness of one RSA-OAEP encryption
Nonces == {7, 200}

\* the service's encrypt: a ciphertext of the plaintext, never empty
KVEncrypt(plaintext, nonce) ==
    <<nonce>> \o [i \in 1..Len(plaintext) |-> (plaintext[i] + 128) % 256]

\* the service's decrypt: inverts KVEncrypt, rejects what is no ciphertext
KVDecrypt(ciphertext) ==
    IF ciphertext = <<>>
    THEN [ok |-> FALSE, Result |-> <<>>]
    ELSE [ok |-> TRUE,
          Result |-> [i \in 1..(Len(ciphertext) - 1) |-> (ciphertext[i + 1] + 128) % 256]]

\* how a call of the service can end: a token that cannot authenticate never
\* gets a result
RemoteOutcomes(tok) == IF Usable(tok) THEN {"ok", "error"} ELSE {"error", "panic"}

\* key.ToString(): fmt.Sprintf("%s/keys/%s/%s", ...), as the pieces of the string
ToStringOf(vaultURL, name, version) == <<vaultURL, "/keys/", name, "/", version>>

\* key.CreationDate.UTC().Format(time.RFC3339)
FormatRFC3339UTC(day) == <<"RFC3339", "UTC", day>>

\* time.Hour * 24 * 30 * 6, in days
SixMonths == 180

\* the clock readings of time.Since
Clock == {0, 180, 181}

-----------------------------------------------------------------------------
(* MasterKey *)

\* Encrypt storing resp.Result before it looks at the error
EncryptResultMutStoreFirst(ek, tok, dataKey, clientOk, outcome, nonce) ==
    IF ~clientOk
    THEN [ EncryptedKey |-> ek, err |-> "failed to construct client to encrypt data",
           remote |-> FALSE, sent |-> <<>>, resp |-> <<>> ]
    ELSE IF outcome # "ok"
    THEN [ EncryptedKey |-> StringOfBytes(<<>>),
           err |-> IF outcome = "panic" THEN "panic" ELSE "failed to encrypt data",
           remote |-> TRUE, sent |-> dataKey, resp |-> <<>> ]
    ELSE LET Result == KVEncrypt(dataKey, nonce)
         IN [ EncryptedKey |-> StringOfBytes(Result), err |-> "nil",
              remote |-> TRUE, sent |-> dataKey, resp |-> Result ]

\* Encrypt(dataKey) on a key with payload ek and token tok. clientOk: whether
\* crypto.NewClient succeeds; outcome: how the service call ends; nonce: the
\* randomness of the encryption.
EncryptResult(ek, tok, dataKey, clientOk, outcome, nonce) ==
    IF ~clientOk
    THEN [ EncryptedKey |-> ek, err |-> "failed to construct client to encrypt data",
           remote |-> FALSE, sent |-> <<>>, resp |-> <<>> ]
    ELSE IF outcome # "ok"
    THEN [ EncryptedKey |-> ek,
           err |-> IF outcome = "panic" THEN "panic" ELSE "failed to encrypt data",
           remote |-> TRUE, sent |-> dataKey, resp |-> <<>> ]
    ELSE LET Result == KVEncrypt(dataKey, nonce)
         IN [ EncryptedKey |-> StringOfBytes(Result), err |-> "nil",
              remote |-> TRUE, sent |-> dataKey, resp |-> Result ]

\* EncryptIfNeeded without its test of the payload
EncryptIfNeededMutAlways(ek, tok, dataKey, clientOk, outcome, nonce) ==
    EncryptResult(ek, tok, dataKey, clientOk, outcome, nonce)

\* EncryptIfNeeded(dataKey)
EncryptIfNeededResult(ek, tok, dataKey, clientOk, outcome, nonce) ==
    IF ek = <<>>
    THEN EncryptResult(ek, tok, dataKey, clientOk, outcome, nonce)
    ELSE [ EncryptedKey |-> ek, err |-> "nil", remote |-> FALSE,
           sent |-> <<>>, resp |-> <<>> ]

\* Decrypt()
DecryptResult(ek, tok, clientOk, outcome) ==
    IF ~clientOk
    THEN [ Result |-> <<>>, err |-> "failed to construct client to decrypt data",
           remote |-> FALSE, sent |-> <<>> ]
    ELSE LET sent == BytesOfString(ek)
             resp == KVDecrypt(sent)
         IN  IF outcome = "ok" /\ resp.ok
             THEN [ Result |-> resp.Result, err |-> "nil", remote |-> TRUE, sent |-> sent ]
             ELSE [ Result |-> <<>>,
                    err |-> IF outcome = "panic" THEN "panic" ELSE "failed to decrypt data",
                    remote |-> TRUE, sent |-> sent ]

\* the environment of one call of Encrypt, EncryptIfNeeded or Decrypt; what
\* has no influence on the call is fixed
Environment(tok) ==
    { [clientOk |-> FALSE, outcome |-> "error", nonce |-> 7] }
    \cup { [clientOk |-> TRUE, outcome |-> o, nonce |-> 7] : o \in RemoteOutcomes(tok) \ {"ok"} }
    \cup { [clientOk |-> TRUE, outcome |-> "ok", nonce |-> n] :
              n \in IF "ok" \in RemoteOutcomes(tok) THEN Nonces ELSE {} }

\* the history of a call of Encrypt (or of EncryptIfNeeded) that returned r
EncryptHistory(r, dataKey) ==
    IF r.err = "nil" /\ r.remote
    THEN [ok |-> TRUE, held |-> TRUE, dataKey |-> dataKey, result |-> r.resp]
    ELSE lastEncrypt

Encrypt ==
    \E dataKey \in DataKeys, e \in Environment(token) :
        LET r == EncryptResult(EncryptedKey, token, dataKey, e.clientOk, e.outcome, e.nonce)
        IN /\ EncryptedKey' = r.EncryptedKey
           /\ lastEncrypt' = EncryptHistory(r, dataKey)
           /\ last' = [ op |-> "Encrypt", dataKey |-> dataKey, env |-> e, err |-> r.err,
                        remote |-> r.remote, sent |-> r.sent, resp |-> r.resp ]
           /\ UNCHANGED <<keyFields, token, b>>

EncryptIfNeeded ==
    \E dataKey \in DataKeys, e \in Environment(token) :
        LET r == EncryptIfNeededResult(EncryptedKey, token, dataKey,
                                       e.clientOk, e.outcome, e.nonce)
        IN /\ EncryptedKey' = r.EncryptedKey
           /\ lastEncrypt' = EncryptHistory(r, dataKey)
           /\ last' = [ op |-> "EncryptIfNeeded", dataKey |-> dataKey, env |-> e,
                        err |-> r.err, remote |-> r.remote, sent |-> r.sent,
                        resp |-> r.resp ]
           /\ UNCHANGED <<keyFields, token, b>>

Decrypt ==
    \E e \in Environment(token) :
        LET r == DecryptResult(EncryptedKey, token, e.clientOk, e.outcome)
        IN /\ e.nonce = 7
           /\ last' = [ op |-> "Decrypt", err |-> r.err, remote |-> r.remote,
                        sent |-> r.sent, result |-> r.Result ]
           /\ UNCHANGED <<keyFields, EncryptedKey, token, b, lastEncrypt>>

SetEncryptedDataKey ==
    \E enc \in DataKeys :
        /\ EncryptedKey' = StringOfBytes(enc)
        /\ lastEncrypt' = [lastEncrypt EXCEPT !.held = FALSE]
        /\ last' = [op |-> "SetEncryptedDataKey", enc |-> enc]
        /\ UNCHANGED <<keyFields, token, b>>

EncryptedDataKey ==
    /\ last' = [op |-> "EncryptedDataKey", result |-> BytesOfString(EncryptedKey)]
    /\ UNCHANGED <<keyFields, EncryptedKey, token, b, lastEncrypt>>

NeedsRotation ==
    \E now \in Clock :
        /\ last' = [ op |-> "NeedsRotation", now |-> now,
                     result |-> (now - CreationDate > SixMonths) ]
        /\ UNCHANGED <<keyFields, EncryptedKey, token, b, lastEncrypt>>

ToString ==
    /\ last' = [op |-> "ToString", result |-> ToStringOf(VaultURL, Name, Version)]
    /\ UNCHANGED <<keyFields, EncryptedKey, token, b, lastEncrypt>>

ToMap ==
    /\ last' = [ op |-> "ToMap",
                 result |-> [ vaultUrl |-> VaultURL, key |-> Name, version |-> Version,
                              created_at |-> FormatRFC3339UTC(CreationDate),
                              enc |-> EncryptedKey ] ]
    /\ UNCHANGED <<keyFields, EncryptedKey, token, b, lastEncrypt>>

-----------------------------------------------------------------------------
(* Decoding the authentication file *)

\* the bytes of an authentication file: NUL, 'a', and the bytes of the
\* UTF-16 and UTF-32 byte order marks
FileBytes == {0, 97, 254, 255}

Files == SeqsUpTo(FileBytes, MaxBytes)

\* the bytes of s from position n + 1 on
Drop(s, n) == [i \in 1..(Len(s) - n) |-> s[i + n]]

HasPrefix(s, p) == Len(s) >= Len(p) /\ \A i \in 1..Len(p) : s[i] = p[i]

\* utfbom.Skip: the encoding the byte order mark announces, and a reader of
\* the bytes after the mark
Skip(bs) ==
    IF HasPrefix(bs, <<0, 0, 254, 255>>) THEN [enc |-> "UTF32BigEndian", rest |-> Drop(bs, 4)]
    ELSE IF HasPrefix(bs, <<255, 254, 0, 0>>) THEN [enc |-> "UTF32LittleEndian", rest |-> Drop(bs, 4)]
    ELSE IF HasPrefix(bs, <<239, 187, 191>>) THEN [enc |-> "UTF8", rest |-> Drop(bs, 3)]
    ELSE IF HasPrefix(bs, <<254, 255>>) THEN [enc |-> "UTF16BigEndian", rest |-> Drop(bs, 2)]
    ELSE IF HasPrefix(bs, <<255, 254>>) THEN [enc |-> "UTF16LittleEndian", rest |-> Drop(bs, 2)]
    ELSE [enc |-> "Unknown", rest |-> bs]

\* binary.Read into a []uint16 of length n: reads exactly 2n bytes, and fails
\* when the reader has fewer
BinaryRead(rest, order, n) ==
    IF Len(rest) < 2 * n
    THEN [err |-> IF Len(rest) = 0 THEN "EOF" ELSE "unexpected EOF", u16 |-> <<>>]
    ELSE [err |-> "nil",
          u16 |-> [i \in 1..n |->
                     IF order = "LittleEndian"
                     THEN rest[2 * i - 1] + 256 * rest[2 * i]
                     ELSE 256 * rest[2 * i - 1] + rest[2 * i]]]

\* utf16.Decode: the runes of a sequence of UTF-16 code units; 65533 is
\* U+FFFD, the replacement character
RECURSIVE Utf16Decode(_)
Utf16Decode(s) ==
    IF s = <<>> THEN <<>>
    ELSE LET r == Head(s)
         IN  IF r < 55296 \/ r >= 57344
             THEN <<r>> \o Utf16Decode(Tail(s))
             ELSE IF r < 56320 /\ Len(s) >= 2 /\ s[2] >= 56320 /\ s[2] < 57344
             THEN <<(r - 55296) * 1024 + (s[2] - 56320) + 65536>> \o Utf16Decode(Tail(Tail(s)))
             ELSE <<65533>> \o Utf16Decode(Tail(s))

\* the UTF-8 encoding of one rune
EncodeRune(r) ==
    IF r < 128 THEN <<r>>
    ELSE IF r < 2048 THEN <<192 + (r \div 64), 128 + (r % 64)>>
    ELSE IF r < 65536
    THEN <<224 + (r \div 4096), 128 + ((r \div 64) % 64), 128 + (r % 64)>>
    ELSE <<240 + (r \div 262144), 128 + ((r \div 4096) % 64),
           128 + ((r \div 64) % 64), 128 + (r % 64)>>

\* []byte(string(runes))
RECURSIVE BytesOfRunes(_)
BytesOfRunes(rs) ==
    IF rs = <<>> THEN <<>> ELSE EncodeRune(Head(rs)) \o BytesOfRunes(Tail(rs))

\* decode(b)
decode(bs) ==
    LET sk == Skip(bs)
    IN  IF sk.enc = "UTF16LittleEndian" \/ sk.enc = "UTF16BigEndian"
        THEN LET rd == BinaryRead(sk.rest,
                                  IF sk.enc = "UTF16LittleEndian" THEN "LittleEndian"
                                                                  ELSE "BigEndian",
                                  (Len(bs) \div 2) - 1)
             IN  IF rd.err # "nil"
                 THEN [err |-> rd.err, out |-> <<>>]
                 ELSE [err |-> "nil", out |-> BytesOfRunes(Utf16Decode(rd.u16))]
        ELSE [err |-> "nil", out |-> sk.rest]

\* LoadAADConfigFromBytes(b, s); unmarshalOk: whether yaml.Unmarshal accepts
\* the decoded bytes
LoadAADConfigFromBytes ==
    \E unmarshalOk \in BOOLEAN :
        LET d == decode(b)
        IN /\ (d.err # "nil" => unmarshalOk)
           /\ last' = [ op |-> "LoadAADConfigFromBytes",
                        err |-> IF d.err # "nil"
                                THEN "failed to decode Azure authentication file bytes"
                                ELSE IF unmarshalOk THEN "nil"
                                ELSE "failed to unmarshal Azure authentication file",
                        unmarshalled |-> d.out ]
           /\ UNCHANGED <<keyFields, EncryptedKey, token, b, lastEncrypt>>

-----------------------------------------------------------------------------

NewKey ==
    /\ VaultURL = "https://v.example"
    /\ Name = "k1"
    /\ Version = "v1"
    /\ EncryptedKey = <<>>
    /\ CreationDate = 0
    /\ token = NoToken
    /\ lastEncrypt = [ok |-> FALSE, held |-> FALSE, dataKey |-> <<>>, result |-> <<>>]
    /\ last = [op |-> "new"]

\* a new key; no authentication file
Init == NewKey /\ b = <<>>

\* a new key and an authentication file to load
InitDecode == NewKey /\ b \in Files

NextDecode == LoadAADConfigFromBytes

SpecDecode == InitDecode /\ [][NextDecode]_vars

SetTokenAny == SetToken(Configs)

NextCred == SetTokenAny

SpecCred == Init /\ [][NextCred]_vars

SetTokenLifecycle == SetToken(LifecycleConfigs)

Next ==
    \/ SetTokenLifecycle
    \/ Encrypt
    \/ EncryptIfNeeded
    \/ Decrypt
    \/ SetEncryptedDataKey
    \/ EncryptedDataKey
    \/ NeedsRotation
    \/ ToString
    \/ ToMap

Spec == Init /\ [][Next]_vars

-----------------------------------------------------------------------------
(* Credential resolution *)

Strategies == {"client-secret", "client-certificate", "legacy-client-secret", "managed-identity"}

Rank(x) ==
    CASE x = "client-secret" -> 1
      [] x = "client-certificate" -> 2
      [] x = "legacy-client-secret" -> 3
      [] x = "managed-identity" -> 4

\* the fields a strategy requires are all present
RequiredPresent(x, s) ==
    CASE x = "client-secret" -> s.TenantID # "" /\ s.ClientID # "" /\ s.ClientSecret # ""
      [] x = "client-certificate" ->
            s.TenantID # "" /\ s.ClientID # "" /\ s.ClientCertificate # ""
      [] x = "legacy-client-secret" -> s.Tenant # "" /\ s.AppID # "" /\ s.Password # ""
      [] x = "managed-identity" -> s.ClientID # ""

HighestRanked(s) ==
    LET E == {x \in Strategies : RequiredPresent(x, s)}
    IN  IF E = {} THEN "none" ELSE CHOOSE x \in E : \A y \in E : Rank(x) <= Rank(y)

\* the last call was SetToken with a config and a key
Resolved == last.op = "SetToken" /\ ~last.s.nil /\ ~last.keyNil

BothSecrets(s) == RequiredPresent("client-secret", s) /\ RequiredPresent("legacy-client-secret", s)

C2_NoManagedIdentityWithTenant ==
    (Resolved /\ last.s.TenantID # "") =>
        /\ last.chosen # "managed-identity"
        /\ (/\ last.s.ClientID # ""
            /\ last.s.ClientSecret = ""
            /\ last.s.ClientCertificate = ""
            /\ ~RequiredPresent("legacy-client-secret", last.s)
            => last.err = "invalid data")

\* C4: a call of SetToken on a key either sets a token or returns an error: it
\* never returns nil leaving the key without a token, and a config with no
\* recognized combination, the absent config included, returns the invalid-data
\* error.
C4_TokenOrError ==
    (last.op = "SetToken" /\ ~last.keyNil) =>
        /\ (last.err = "nil" => Usable(token))
        /\ (last.chosen = "none" => last.err = "invalid data")

\* C5: when parsing the client certificate fails, SetToken returns an error
\* that reports that failure, whatever the credential constructor returns.
C5_ParseErrorPropagated ==
    (Resolved /\ last.parseErr # "nil") => last.err = last.parseErr

-----------------------------------------------------------------------------
(* The key *)

CryptoOps == {"Encrypt", "Decrypt"}

\* C3: Encrypt and Decrypt on a key whose token was never set return an error
\* without calling the service.
C3_FailFastWithoutToken ==
    (last.op \in CryptoOps /\ token = NoToken) => (last.err # "nil" /\ ~last.remote)

\* C6: the token is assigned at most once: once the key has a token, no step
\* replaces or clears it.
C6_TokenSetOnce == [][token # NoToken => token' = token]_vars

\* C7: while the payload is the one a successful Encrypt(dataKey) stored, the
\* payload is byte for byte the ciphertext the service returned, Decrypt sends
\* exactly those bytes to the service, and a successful Decrypt returns dataKey.
C7_RoundTrip ==
    lastEncrypt.held =>
        /\ BytesOfString(EncryptedKey) = lastEncrypt.result
        /\ (last.op = "Decrypt" /\ last.remote => last.sent = lastEncrypt.result)
        /\ (last.op = "Decrypt" /\ last.err = "nil" => last.result = lastEncrypt.dataKey)

\* a data key with a byte that is not UTF-8 came back from Decrypt
C7_Witness ==
    /\ lastEncrypt.held
    /\ last.op = "Decrypt"
    /\ last.err = "nil"
    /\ \E i \in 1..Len(lastEncrypt.dataKey) : lastEncrypt.dataKey[i] = 255
    /\ last.result = lastEncrypt.dataKey

\* C8: EncryptIfNeeded on a non-empty payload returns nil without calling
\* the service and leaves the payload as it is, whatever the data key; on an
\* empty payload it does what Encrypt does; and after a successful call a
\* further call leaves the payload unchanged.
C8_EncryptIfNeededIdempotent ==
    [][ last'.op = "EncryptIfNeeded" =>
          /\ (EncryptedKey # <<>> =>
                /\ EncryptedKey' = EncryptedKey
                /\ last'.err = "nil"
                /\ ~last'.remote)
          /\ (EncryptedKey = <<>> =>
                LET r == EncryptResult(EncryptedKey, token, last'.dataKey,
                                       last'.env.clientOk, last'.env.outcome, last'.env.nonce)
                IN  /\ EncryptedKey' = r.EncryptedKey
                    /\ last'.err = r.err
                    /\ last'.remote = r.remote
                    /\ last'.sent = r.sent)
          /\ (last.op = "EncryptIfNeeded" /\ last.err = "nil" => EncryptedKey' = EncryptedKey)
      ]_vars

\* EncryptIfNeeded with another data key skipped the payload of an earlier Encrypt
C8_Witness ==
    /\ last.op = "EncryptIfNeeded"
    /\ last.err = "nil"
    /\ ~last.remote
    /\ lastEncrypt.held
    /\ last.dataKey # lastEncrypt.dataKey
    /\ EncryptedKey = lastEncrypt.result

\* C9, as stated: the payload of a new key is empty until an Encrypt succeeds.
C9_EmptyUntilEncrypt == ~lastEncrypt.ok => EncryptedKey = <<>>

EncryptOps == {"Encrypt", "EncryptIfNeeded"}

\* C9, amended: the payload of a new key changes only by an Encrypt that
\* succeeds or by SetEncryptedDataKey: a failed Encrypt, Decrypt, SetToken,
\* NeedsRotation, ToString and ToMap leave it unchanged, a successful Encrypt
\* sets it to exactly the ciphertext the service returned, and
\* SetEncryptedDataKey sets it to exactly its argument.
C9_PayloadChangesOnlyByEncryptOrSet ==
    [][ /\ (last'.op = "Encrypt" /\ last'.err = "nil" => EncryptedKey' = last'.resp)
        /\ (last'.op = "SetEncryptedDataKey" => EncryptedKey' = last'.enc)
        /\ (EncryptedKey' # EncryptedKey =>
              IF last'.op \in EncryptOps
              THEN last'.err = "nil" /\ last'.remote /\ EncryptedKey' = last'.resp
              ELSE last'.op = "SetEncryptedDataKey")
      ]_vars

\* an Encrypt failed on a key that had a payload, and the payload is still there
C9_Witness ==
    /\ last.op = "Encrypt"
    /\ last.err # "nil"
    /\ last.remote
    /\ EncryptedKey # <<>>

-----------------------------------------------------------------------------
(* Loading the authentication file *)

\* a UTF-16 byte order mark followed by an odd number of bytes
TruncatedUTF16(bs) ==
    /\ HasPrefix(bs, <<255, 254>>) \/ HasPrefix(bs, <<254, 255>>)
    /\ (Len(bs) - 2) % 2 = 1

\* C10: loading a truncated UTF-16 file fails with the decoding error.
C10_TruncatedFails ==
    (last.op = "LoadAADConfigFromBytes" /\ TruncatedUTF16(b)) =>
        last.err = "failed to decode Azure authentication file bytes"

====
